---------------------------- MODULE Spec2Model ----------------------------
(***************************************************************************)
(* A model of the IMLE lab (kir-/imlelab).                                 *)
(*                                                                         *)
(*  Part I  - IMLELabModel.nearest_neighbour (src/demo/imle_model.ts), the *)
(*            RS-IMLE matching step, as a pure function of its inputs.     *)
(*            Specification SpecNN draws the inputs and applies it.        *)
(*  Part II - GANLab.iterateTraining with the play / pause / step / slow  *)
(*            controls and the timer and animation-frame callbacks that    *)
(*            drive it.  Specification Spec is the variant with a separate *)
(*            sampling stage (src/unnamed/part_001), SpecDemo the variant  *)
(*            of src/demo/imlelab.ts.                                      *)
(*                                                                         *)
(* Numbers.  Coordinates are integers in half units (2 = 1.0).  Every      *)
(* distance is an integer in thousandths (1000 = 1.0), so that L1, squared *)
(* L2, the Barrier metric and epsilon share one scale.                     *)
(***************************************************************************)
EXTENDS Integers, Sequences, FiniteSets, TLC

(***************************************************************************)
(*                    Part I : nearest_neighbour                           *)
(***************************************************************************)

VARIABLES
  realData,       \* [N_real, 2]: function 0..N_real-1 -> point
  generatedData,  \* [N_gen, 2]:  function 0..N_gen-1  -> point
  distanceType,   \* this.distanceType, a string
  epsilon,        \* this.epsilon of the model, in thousandths
  labEpsilon,     \* this.epsilon of GANLab, in thousandths
  nn              \* the tensors of the last nearest_neighbour call, or NoCall

nnVars == <<realData, generatedData, distanceType, epsilon, labEpsilon, nn>>

\* Bounds of the drawn inputs.
MaxReal == 2
MaxGen  == 3

\* Points the real batch is drawn from: (0,0), (1,1), (1,0).
RealPoints == { <<0, 0>>, <<2, 2>>, <<2, 0>> }

\* Points the generator output is drawn from; the generator's range is
\* [-0.5, 1.5] in each coordinate.
GenPoints == { <<0, 0>>, <<2, 2>>, <<1, 1>>, <<0, 2>>, <<-1, 1>> }

\* this.distanceTypeOptions, the entries of the distance dropdown.
distanceTypeOptions == { "L1", "L2", "Barrier" }

\* The constructor takes any string: the three names and an unknown one.
DistanceTypes == distanceTypeOptions \cup { "Foo" }

\* epsilon >= 0: 0, 0.1 and 1.0.
Epsilons == { 0, 100, 1000 }

NoCall == [called |-> FALSE]

Abs(x) == IF x < 0 THEN -x ELSE x

\* floor(sqrt(n)) by bisection on [lo, hi), lo*lo <= n < hi*hi.
RECURSIVE SqrtBetween(_, _, _)
SqrtBetween(n, lo, hi) ==
  IF hi - lo <= 1 THEN lo
  ELSE LET mid == (lo + hi) \div 2
       IN  IF mid * mid <= n THEN SqrtBetween(n, mid, hi)
                             ELSE SqrtBetween(n, lo, mid)

Sqrt(n) == SqrtBetween(n, 0, 46340)

\* diff.abs().sum(2): |dx| + |dy| half units = 500 thousandths each.
DistL1(p, q) == 500 * (Abs(p[1] - q[1]) + Abs(p[2] - q[2]))

\* diff.square().sum(2): quarter units = 250 thousandths each.
DistL2(p, q) ==
  250 * ((p[1] - q[1]) * (p[1] - q[1]) + (p[2] - q[2]) * (p[2] - q[2]))

\* r = diff.square().sum(2).sqrt(), in thousandths: sqrt(quarters * 250000).
Euclid(p, q) ==
  Sqrt(250000 * ((p[1] - q[1]) * (p[1] - q[1]) + (p[2] - q[2]) * (p[2] - q[2])))

\* lam.div(r.add(eps)), lam = 1e-3, eps = 1e-8.  With r in thousandths the
\* quotient in thousandths is 1000 * 1e-3 / (r/1000 + 1e-8) = 1e8 / (1e5 r + 1).
BarrierPenaltySubtracted(r) == 0 - (100000000 \div (100000 * r + 1))

BarrierPenalty(r) == 100000000 \div (100000 * r + 1)

\* distances = r.add(lam.div(r.add(eps)))
DistBarrier(p, q) == Euclid(p, q) + BarrierPenalty(Euclid(p, q))

\* switch (this.distanceType): 'L1', 'Barrier', default L2 (squared).
DistanceDefaultL1(type, p, q) ==
  CASE type = "L2"      -> DistL2(p, q)
    [] type = "Barrier" -> DistBarrier(p, q)
    [] OTHER            -> DistL1(p, q)

Distance(type, p, q) ==
  CASE type = "L1"      -> DistL1(p, q)
    [] type = "Barrier" -> DistBarrier(p, q)
    [] OTHER            -> DistL2(p, q)

\* distances: [N_real, N_gen]
Distances(type, real, gen) ==
  [i \in DOMAIN real |-> [j \in DOMAIN gen |-> Distance(type, real[i], gen[j])]]

\* part_000: (this.distanceType === 'L1') ? diff.abs().sum(2)
\*                                          : diff.square().sum(2)
LegacyDistances(type, real, gen) ==
  [i \in DOMAIN real |->
     [j \in DOMAIN gen |->
        IF type = "L1" THEN DistL1(real[i], gen[j])
                       ELSE DistL2(real[i], gen[j])]]

\* part_000: distances.argMin(1), no rejection: for each real point the
\* first index holding the minimum of its row.
legacy_nearest_neighbour(type, real, gen) ==
  LET dist == LegacyDistances(type, real, gen)
  IN  [i \in DOMAIN real |->
         CHOOSE j \in DOMAIN gen :
            /\ \A k \in DOMAIN gen : dist[i][j] <= dist[i][k]
            /\ \A k \in DOMAIN gen : k < j => dist[i][j] < dist[i][k]]

SetMin(S) == CHOOSE m \in S : \A x \in S : m <= x
SetMax(S) == CHOOSE m \in S : \A x \in S : x <= m

\* distances.min(0): for each generated point the distance to its nearest real point.
MinDistToRealMax(dist, nGen) ==
  [j \in 0 .. nGen - 1 |-> SetMax({ dist[i][j] : i \in DOMAIN dist })]

MinDistToReal(dist, nGen) ==
  [j \in 0 .. nGen - 1 |-> SetMin({ dist[i][j] : i \in DOMAIN dist })]

\* minDistToReal.greater(tf.scalar(this.epsilon))
RejectionFilterGeq(minDist, eps) == [j \in DOMAIN minDist |-> minDist[j] >= eps]

RejectionFilter(minDist, eps) == [j \in DOMAIN minDist |-> minDist[j] > eps]

\* argMax of a vector: the first index holding the maximum.
ArgMaxLast(v) ==
  SetMax({ j \in DOMAIN v : \A k \in DOMAIN v : v[k] <= v[j] })

ArgMax(v) ==
  SetMin({ j \in DOMAIN v : \A k \in DOMAIN v : v[k] <= v[j] })

\* tf.range(0, depth, 1, 'int32').equal(farIdxScalar.toInt())
ForceKeep(farIdx, nGen) == [j \in 0 .. nGen - 1 |-> j = farIdx]

\* keepMask.logicalOr(forceKeep)
LogicalOrNoForce(a, b) == a

LogicalOr(a, b) == [j \in DOMAIN a |-> a[j] \/ b[j]]

\* A float32 value k * 1e9 + d is kept as the pair <<k, d>>, d in thousandths:
\* 1e9 in thousandths does not fit a 32-bit integer.  Pairs compare
\* lexicographically, which is the order of the sums as every d is below 1e9.
FLess(a, b) == a[1] < b[1] \/ (a[1] = b[1] /\ a[2] < b[2])

\* distances.add(mask2D.mul(large)), large = 1e9, mask2D = 1.0 on rejected
\* columns.  Float32 values next to 1e9 are 64 apart, so d + 1e9 is rounded to
\* the nearest multiple of 64 (64000 thousandths); d + 0 is d.
AddLargeNegated(d, keep) ==
  IF keep THEN <<1, ((d + 32000) \div 64000) * 64000>> ELSE <<0, d>>

AddLarge(d, keep) ==
  IF keep THEN <<0, d>> ELSE <<1, ((d + 32000) \div 64000) * 64000>>

\* maskedDistances: [N_real, N_gen]
MaskedDistancesWithoutNot(dist, keepMask) ==
  [i \in DOMAIN dist |->
     [j \in DOMAIN keepMask |-> AddLarge(dist[i][j], ~keepMask[j])]]

MaskedDistances(dist, keepMask) ==
  [i \in DOMAIN dist |->
     [j \in DOMAIN keepMask |-> AddLarge(dist[i][j], keepMask[j])]]

\* argMin of one row: the first index holding the minimum.
ArgMinLast(row) ==
  SetMax({ j \in DOMAIN row : \A k \in DOMAIN row : ~FLess(row[k], row[j]) })

ArgMin(row) ==
  SetMin({ j \in DOMAIN row : \A k \in DOMAIN row : ~FLess(row[k], row[j]) })

\* nearest_neighbour(realData, generatedData): every tensor of the tidy block;
\* idx is the returned maskedDistances.argMin(1).
nearest_neighbour(type, eps, real, gen) ==
  LET nGen      == Cardinality(DOMAIN gen)
      dist      == Distances(type, real, gen)
      minDist   == MinDistToReal(dist, nGen)
      filter    == RejectionFilter(minDist, eps)
      farIdx    == ArgMax(minDist)
      forceKeep == ForceKeep(farIdx, nGen)
      keepMask  == LogicalOr(filter, forceKeep)
      masked    == MaskedDistances(dist, keepMask)
  IN  [called        |-> TRUE,
       distances     |-> dist,
       minDistToReal |-> minDist,
       filter        |-> filter,
       farIdx        |-> farIdx,
       keepMask      |-> keepMask,
       masked        |-> masked,
       idx           |-> [i \in DOMAIN real |-> ArgMin(masked[i])]]


(***************************************************************************)
(*            Part II : GANLab.iterateTraining and its controls            *)
(*                                                                         *)
(* The browser runs one task at a time: a click handler, a setTimeout      *)
(* callback or an animation-frame callback, each to its end.  An async     *)
(* function runs on inside the task that called it up to its first await;  *)
(* the continuation of an await on sleep() runs in the task of the timer   *)
(* callback that resolves it.  Each action below is one such task.         *)
(***************************************************************************)

VARIABLES
  variant,                   \* which GANLab source the behaviour follows
  isPlaying,                 \* this.isPlaying
  isPausedOngoingIteration,  \* this.isPausedOngoingIteration
  stepMode,                  \* this.stepMode
  slowMode,                  \* this.slowMode
  iterationCount,            \* this.iterationCount
  kGSteps,                   \* this.kGSteps
  noiseSize,                 \* this.noiseSize, the width of a latent vector
  model,                     \* this.model: the identity of the model instance
  gVersion,                  \* optimizer steps applied to this.model.gVariables
  calls,                     \* the calls of iterateTraining suspended in an await
  raf,                       \* animation-frame callbacks requested and not yet run
  started,                   \* calls of iterateTraining that passed the isPlaying check
  optLog,                    \* history: the optimizer steps the last task applied
  lastAbort,                 \* history: the exception that ended a call in the last task
  lastEnd                    \* history: the call that ended in the last task, and the
                             \* tensors it made that are still allocated

labVars == <<variant, isPlaying, isPausedOngoingIteration, stepMode, slowMode,
             iterationCount, kGSteps, noiseSize, model, gVersion,
             calls, raf, started, optLog, lastAbort, lastEnd>>

\* The generator architecture, the IMLELabModel object and the weight file.
VARIABLES
  numGeneratorLayers,   \* this.numGeneratorLayers of GANLab
  numGeneratorNeurons,  \* this.numGeneratorNeurons of GANLab
  gOptimizerType,       \* this.gOptimizerType
  gLearningRate,        \* this.gLearningRate, in thousandths
  imle,                 \* this.model as an object: its fields and gVariables
  heap,                 \* the tf.Variable parameter tensors not disposed
  file,                 \* the tf.io.ModelArtifacts last saved, or NoFile
  lastOp                \* what the last task did to the model object

modelVars == <<numGeneratorLayers, numGeneratorNeurons, gOptimizerType,
               gLearningRate, imle, heap, file, lastOp>>

\* The pre-trained mode and the weight files being fetched.
VARIABLES
  usePretrained,        \* this.usePretrained
  selectedShapeName,    \* this.selectedShapeName
  loads                 \* the calls of loadPretrainedWeightFile awaiting the file

loadVars == <<usePretrained, selectedShapeName, loads>>

vars == <<nnVars, labVars, modelVars, loadVars>>

\* Bounds of the model.
MaxStarts == 2    \* iterations started in one behaviour
MaxK      == 2    \* kGSteps explored (the buttons allow up to MaxKGSteps)
MaxRaf    == 1    \* animation-frame callbacks pending at once
MaxModels == 1    \* model instances created after the first

\* if (this.kGSteps < 10)
MaxKGSteps == 10

\* if (this.iterationCount >= 999999) this.isPlaying = false;
IterationCeiling == 999999

\* this.noiseTypes = ['1D Gaussian', '2D Gaussian']
NoiseSizes == { 1, 2 }

Min(a, b) == IF a < b THEN a ELSE b

\* The stages of sampling, generation and matching, which an exception of
\* the input provider or of the tensor library may end.
Failures == { "sampling", "generation", "matching" }

NoFail == [fail |-> "none", step |-> 1]

\* What the environment does to one task: nothing, or an exception in one
\* stage of the step-th sampling of the task.  part_001 samples once in a
\* call, imlelab.ts once in every optimizer step.
Envs ==
  { NoFail } \cup
  [fail : Failures, step : 1 .. (IF variant = "part_001" THEN 1 ELSE MaxK)]

NoTensor == [by |-> 0]
NoAbort  == [by |-> 0, stage |-> "none", applied |-> 0]
NoLog    == [by |-> 0, steps |-> << >>]
NoEnd    == [by |-> 0, path |-> "none", live |-> {}]

\* The object's fields and the task queues as one record, so that the
\* statements of a handler compose as in the source.  optLog and lastAbort
\* start every task empty: they tell what that task did.
World ==
  [variant |-> variant, isPlaying |-> isPlaying,
   isPausedOngoingIteration |-> isPausedOngoingIteration,
   stepMode |-> stepMode, slowMode |-> slowMode,
   iterationCount |-> iterationCount, kGSteps |-> kGSteps,
   noiseSize |-> noiseSize, model |-> model, gVersion |-> gVersion,
   calls |-> calls, raf |-> raf, started |-> started,
   optLog |-> NoLog, lastAbort |-> NoAbort, lastEnd |-> NoEnd,
   ok |-> TRUE]     \* FALSE once a statement would pass a bound of the model

Commit(w) ==
  /\ w.ok
  /\ variant' = w.variant
  /\ isPlaying' = w.isPlaying
  /\ isPausedOngoingIteration' = w.isPausedOngoingIteration
  /\ stepMode' = w.stepMode
  /\ slowMode' = w.slowMode
  /\ iterationCount' = w.iterationCount
  /\ kGSteps' = w.kGSteps
  /\ noiseSize' = w.noiseSize
  /\ model' = w.model
  /\ gVersion' = w.gVersion
  /\ calls' = w.calls
  /\ raf' = w.raf
  /\ started' = w.started
  /\ optLog' = w.optLog
  /\ lastAbort' = w.lastAbort
  /\ lastEnd' = w.lastEnd
  /\ UNCHANGED <<nnVars, modelVars, loadVars>>

\* ---- the suspended calls ------------------------------------------------

Without(cs, id) == SelectSeq(cs, LAMBDA c : c.id # id)

IsSuspended(cs, id) == \E i \in 1 .. Len(cs) : cs[i].id = id

\* The call awaits sleep(): it stays (or becomes) one of the suspended calls.
Suspend(w, c) ==
  [w EXCEPT !.calls =
     IF IsSuspended(w.calls, c.id)
     THEN [i \in 1 .. Len(w.calls) |->
             IF w.calls[i].id = c.id THEN c ELSE w.calls[i]]
     ELSE Append(w.calls, c)]

\* The tensors iterateTraining of part_001 keeps for the iteration, in the
\* order of their creation (fixedLatents on, as after ready(): the pool and
\* indices shown are made apart from those trained on).  imlelab.ts makes its
\* tensors inside tf.tidy, which releases them however the block ends.
IterationTensors ==
  << "realBatch", "latentPoolTrain", "genPoolTrain", "nnIdxTrain",
     "genPoolViz", "nnIdxViz" >>

\* How many of them exist when a stage throws: the real batch draw, the
\* generator on the training pool, nearest_neighbour on it; later stages
\* have them all.
MadeBefore(v, stage) ==
  IF v # "part_001" THEN 0
  ELSE CASE stage = "sampling"   -> 0
         [] stage = "generation" -> 2
         [] stage = "matching"   -> 3
         [] OTHER                -> Len(IterationTensors)

\* nnIdxTrain.dispose() ... realBatch.dispose(): what is left of a set of
\* tensors after the disposals at the end of iterateTraining.
Dispose(ts) ==
  ts \ { "nnIdxTrain", "genPoolTrain", "latentPoolTrain",
         "nnIdxViz", "genPoolViz", "realBatch" }

\* An exception leaves the async function: the call ends there, nothing after
\* the throwing statement runs (no disposal, no requestAnimationFrame).
Throw(w, c, stage, applied) ==
  [w EXCEPT !.calls = Without(w.calls, c.id),
            !.lastAbort =
               [by |-> c.id, stage |-> stage, applied |-> applied],
            !.lastEnd =
               [by |-> c.id, path |-> "thrown",
                live |-> { IterationTensors[k] :
                             k \in 1 .. MadeBefore(w.variant, stage) }]]

\* The end of iterateTraining: the disposals, the ceiling, then
\* requestAnimationFrame.
FinishAboveCeiling(w, c) ==
  LET w1 == [w EXCEPT !.calls = Without(w.calls, c.id),
                      !.isPlaying =
                         IF w.iterationCount > IterationCeiling
                         THEN FALSE ELSE @]
  IN  IF w1.raf >= MaxRaf THEN [w1 EXCEPT !.ok = FALSE]
      ELSE [w1 EXCEPT !.raf = @ + 1]

Finish(w, c) ==
  LET made == { IterationTensors[k] :
                  k \in 1 .. MadeBefore(w.variant, "end") }
      w1 == [w EXCEPT !.calls = Without(w.calls, c.id),
                      !.lastEnd = [by |-> c.id, path |-> "finished",
                                   live |-> Dispose(made)],
                      !.isPlaying =
                         IF w.iterationCount >= IterationCeiling
                         THEN FALSE ELSE @]
  IN  IF w1.raf >= MaxRaf THEN [w1 EXCEPT !.ok = FALSE]
      ELSE [w1 EXCEPT !.raf = @ + 1]

\* ---- the awaits of a stage ----------------------------------------------
\* A stage is one `if (this.slowMode)` block of awaits: this.sleep() and the
\* sleeps of highlightIMLEStep, one after the other, with only highlighting
\* between them.  Every one of them is sleep() with the same check, so a
\* suspended call is kept at pc = the stage whose sleeps it is waiting in.
\* Both sources have five such blocks.
Stages == 5

\* ---- the training block -------------------------------------------------

\* part_001: kGSteps times gOptimizer.minimize on the call's own realBatch,
\* latentPoolTrain and nnIdxTrain, with this.model at the time of the step.
\* imleLoss runs this.model's generator on the matched latents: the product
\* with its first weight matrix throws when the widths differ.
OptimizeStepsOfLatestCall(w, c) ==
  LET d == IF w.calls = << >> THEN c ELSE w.calls[Len(w.calls)]
  IN  [j \in 1 .. w.kGSteps |->
         [real |-> d.realBatch, latents |-> d.latentPoolTrain,
          idx |-> d.nnIdxTrain, model |-> w.model]]

OptimizeSteps(w, c) ==
  [j \in 1 .. w.kGSteps |->
     [real |-> c.realBatch, latents |-> c.latentPoolTrain,
      idx |-> c.nnIdxTrain, model |-> w.model]]

OptimizeOnce(w, c) ==
  IF w.kGSteps > 0 /\ c.latentPoolTrain.noise # w.noiseSize
  THEN [w |-> Throw(w, c, "optimizing", 0), thrown |-> TRUE]
  ELSE [w |-> [w EXCEPT !.gVersion = @ + 1,
                        !.optLog = [by |-> c.id,
                                    steps |-> << [real |-> c.realBatch,
                                                  latents |-> c.latentPoolTrain,
                                                  idx |-> c.nnIdxTrain,
                                                  model |-> w.model] >>]],
        thrown |-> FALSE]

Optimize(w, c) ==
  IF w.kGSteps > 0 /\ c.latentPoolTrain.noise # w.noiseSize
  THEN [w |-> Throw(w, c, "optimizing", 0), thrown |-> TRUE]
  ELSE [w |-> [w EXCEPT !.gVersion = @ + w.kGSteps,
                        !.optLog = [by |-> c.id, steps |-> OptimizeSteps(w, c)]],
        thrown |-> FALSE]

\* part_001: the loss shown to the user, this.model.imleLoss on the call's
\* matched latents; it changes no parameter.
LossDisplayByMinimize(w, c) ==
  IF c.latentPoolTrain.noise # w.noiseSize
  THEN [w |-> Throw(w, c, "loss", 0), thrown |-> TRUE]
  ELSE [w |-> [w EXCEPT !.gVersion = @ + 1], thrown |-> FALSE]

LossDisplay(w, c) ==
  IF c.latentPoolTrain.noise # w.noiseSize
  THEN [w |-> Throw(w, c, "loss", 0), thrown |-> TRUE]
  ELSE [w |-> w, thrown |-> FALSE]

\* imlelab.ts: each of the kGSteps minimize closures draws its own real batch
\* and latent pool, runs the generator and nearest_neighbour, then the loss.
DemoStep(w, c, j) ==
  LET real == [by |-> c.id, draw |-> j]
      lat  == [by |-> c.id, draw |-> j, noise |-> w.noiseSize]
      gen  == [by |-> c.id, latents |-> lat, model |-> w.model]
  IN  [real |-> real, latents |-> lat,
       idx |-> [by |-> c.id, real |-> real, gen |-> gen],
       model |-> w.model]

TrainDemo(w, c, env) ==
  LET k      == w.kGSteps
      failAt == IF env.fail # "none" /\ env.step <= k THEN env.step ELSE 0
      n      == IF failAt = 0 THEN k ELSE failAt - 1
      w1     == [w EXCEPT !.gVersion = @ + n,
                          !.optLog = [by |-> c.id,
                                      steps |-> [j \in 1 .. n |-> DemoStep(w, c, j)]]]
  IN  IF failAt = 0 THEN [w |-> w1, thrown |-> FALSE]
      ELSE [w |-> Throw(w1, c, env.fail, n), thrown |-> TRUE]

\* The code that follows the awaits of stage s, up to the next stage.
PostCode(w, c, s, env) ==
  CASE w.variant = "part_001" /\ s = 3 -> LossDisplay(w, c)
    [] w.variant = "part_001" /\ s = 5 -> Optimize(w, c)
    [] w.variant = "demo" /\ s = 3     -> TrainDemo(w, c, env)
    [] OTHER                           -> [w |-> w, thrown |-> FALSE]

\* From the `if (this.slowMode)` that guards the awaits of stage s: in slow
\* mode the call suspends in the stage's first await; otherwise the code runs
\* on, stage after stage, to the end of iterateTraining.
RECURSIVE Stage(_, _, _, _)
Stage(w, c, s, env) ==
  IF s > Stages THEN Finish(w, c)
  ELSE IF w.slowMode
       THEN Suspend(w, [c EXCEPT !.pc = s])
       ELSE LET r == PostCode(w, c, s, env)
            IN  IF r.thrown THEN r.w ELSE Stage(r.w, c, s + 1, env)

\* The continuation of a call whose sleeps of stage c.pc are resolved.
Resume(w, c, env) ==
  LET r == PostCode(w, c, c.pc, env)
  IN  IF r.thrown THEN r.w ELSE Stage(r.w, c, c.pc + 1, env)

\* ---- iterateTraining ----------------------------------------------------

\* part_001, lines 810-817: the call's real batch, latent pool, generated
\* pool and match indices, each named by the call that made it.
NewCall(w, id, keepIterating) ==
  LET real == [by |-> id, draw |-> 1]
      lat  == [by |-> id, draw |-> 1, noise |-> w.noiseSize]
      gen  == [by |-> id, latents |-> lat, model |-> w.model]
      own  == w.variant = "part_001"
  IN  [id |-> id, pc |-> 0,
       realBatch       |-> IF own THEN real ELSE NoTensor,
       latentPoolTrain |-> IF own THEN lat ELSE NoTensor,
       genPoolTrain    |-> IF own THEN gen ELSE NoTensor,
       nnIdxTrain      |-> IF own THEN [by |-> id, real |-> real, gen |-> gen]
                                  ELSE NoTensor]

iterateTraining(w, keepIterating, env) ==
  IF ~w.isPlaying THEN w
  ELSE IF w.started >= MaxStarts THEN [w EXCEPT !.ok = FALSE]
  ELSE LET id == w.started + 1
           w1 == [w EXCEPT !.started = id, !.iterationCount = @ + 1]
           c  == NewCall(w1, id, keepIterating)
       IN  IF w.variant = "part_001" /\ env.fail # "none"
           THEN Throw(w1, c, env.fail, 0)
           ELSE Stage(w1, c, 1, env)

\* ---- the controls -------------------------------------------------------

pause(w) == [w EXCEPT !.isPlaying = FALSE]

\* onClickSlowModeButton and onClickStepModeButton call each other.
RECURSIVE onClickStepModeButton(_)
RECURSIVE onClickSlowModeButton(_)
onClickSlowModeButton(w) ==
  LET w1 == [w EXCEPT !.slowMode = ~@]
  IN  IF w1.slowMode /\ w1.stepMode THEN onClickStepModeButton(w1) ELSE w1

onClickStepModeButton(w) ==
  IF ~w.stepMode
  THEN LET w1 == IF w.isPlaying THEN pause(w) ELSE w
           w2 == IF w1.slowMode THEN onClickSlowModeButton(w1) ELSE w1
       IN  [w2 EXCEPT !.stepMode = TRUE]
  ELSE [w EXCEPT !.stepMode = FALSE]

play(w, env) ==
  LET w1 == IF w.stepMode THEN onClickStepModeButton(w) ELSE w
      w2 == [w1 EXCEPT !.isPlaying = TRUE]
  IN  IF ~w2.isPausedOngoingIteration THEN iterateTraining(w2, TRUE, env)
      ELSE w2

onClickPlayPauseButton(w, env) ==
  IF w.isPlaying THEN pause(w) ELSE play(w, env)

onClickNextStepButton(w, env) ==
  LET w1 == IF w.isPlaying THEN pause(w) ELSE w
      w2 == [w1 EXCEPT !.isPlaying = TRUE]
      w3 == iterateTraining(w2, FALSE, env)
  IN  [w3 EXCEPT !.isPlaying = FALSE]

createExperiment(w) ==
  LET w1 == pause(w)
      w2 == [w1 EXCEPT !.iterationCount = 0,
                       !.isPausedOngoingIteration = FALSE]
  IN  IF w2.model >= MaxModels THEN [w2 EXCEPT !.ok = FALSE]
      ELSE [w2 EXCEPT !.model = @ + 1, !.gVersion = 0]

\* With a shape other than 'drawing' and usePretrained off, as after ready().
loadModelAndCreateExperiment(w) == createExperiment(w)

onClickResetButton(w) ==
  loadModelAndCreateExperiment(IF w.isPlaying THEN pause(w) ELSE w)

\* setTimeout(check, ...) of sleep(): resolve when playing, else wait on.
checkIgnoringPause(w, c, env) ==
  Resume([w EXCEPT !.isPausedOngoingIteration = FALSE], c, env)

check(w, c, env) ==
  IF w.isPlaying
  THEN Resume([w EXCEPT !.isPausedOngoingIteration = FALSE], c, env)
  ELSE [w EXCEPT !.isPausedOngoingIteration = TRUE]

\* ---- the tasks ----------------------------------------------------------

ClickPlayPause == \E env \in Envs : Commit(onClickPlayPauseButton(World, env))

\* The step buttons are shown in step mode only.
ClickNextStep ==
  /\ stepMode
  /\ \E env \in Envs : Commit(onClickNextStepButton(World, env))

ClickStepMode == Commit(onClickStepModeButton(World))

ClickSlowMode == Commit(onClickSlowModeButton(World))

ClickKGStepsAdd ==
  /\ kGSteps < Min(MaxKGSteps, MaxK)
  /\ Commit([World EXCEPT !.kGSteps = @ + 1])

ClickKGStepsRemove ==
  /\ kGSteps > 0
  /\ Commit([World EXCEPT !.kGSteps = @ - 1])

\* A click on one of the four layer and neuron buttons whose guard holds
\* (of each pair, add or remove is always allowed).
ChangeArchitecture == Commit(createExperiment(World))

\* The noise dropdown: '1D Gaussian' or '2D Gaussian'.
SelectNoiseType ==
  \E n \in NoiseSizes :
     Commit(createExperiment([World EXCEPT !.noiseSize = n]))

ClickReset == Commit(onClickResetButton(World))

\* Only imlelab.ts samples after an await.
TimerCheck ==
  \E i \in 1 .. Len(calls) :
     \E env \in (IF variant = "part_001" THEN { NoFail } ELSE Envs) :
        Commit(check(World, calls[i], env))

AnimationFrame ==
  /\ raf > 0
  /\ \E env \in Envs :
        Commit(iterateTraining([World EXCEPT !.raf = @ - 1], TRUE, env))

(***************************************************************************)
(*        Part III : the IMLELabModel object and the weight file           *)
(*                                                                         *)
(* gVariables is the list of tf.Variable of one IMLELabModel object; a     *)
(* variable is [id, shape, value].  A value is not an array of numbers but *)
(* a token: which variable it was drawn for and how many optimizer steps   *)
(* it has taken, so two parameters are equal iff their tokens are.  The    *)
(* list is a sequence: index i of the source is position i + 1.            *)
(***************************************************************************)

\* Bounds of this part.
MaxMade  == 2    \* IMLELabModel objects constructed after the first
MaxSteps == 1    \* optimizer steps applied to one value

\* if (this.numGeneratorLayers < 5)
MaxLayers == 5

\* if (this.numGeneratorNeurons < 100)
MaxNeurons == 100

\* this.optimizerTypeOptions = ['SGD', 'Adam', 'Adagrad', 'RMSProp']
optimizerTypeOptions == { "SGD", "Adam", "Adagrad", "RMSProp" }

\* updateOptimizer takes any string.
OptimizerNames == optimizerTypeOptions \cup { "Foo" }

\* this.learningRateOptions = [0.001, 0.003, 0.01, 0.03, 0.1]
learningRateOptions == { 1, 3, 10, 30, 100 }

\* The two versions of the class.
ModelSources == { "imle_model.ts", "part_000" }

NoFile == [saved |-> FALSE]
NoOp   == [op |-> "none"]

\* `g-${i}`
Key(i) == << "g-", i >>

\* decoded[name] of a name the file does not hold.
Undefined == [shape |-> << >>, value |-> "undefined"]

\* tf.variable(tf.randomNormal(shape)) or tf.variable(tf.zeros(shape)),
\* pushed to the list g of the object uid.
Push(g, uid, shape) ==
  Append(g, [id |-> << uid, Len(g) >>, shape |-> shape,
             value |-> [from |-> << uid, Len(g) >>, steps |-> 0]])

\* new IMLELabModel(noiseSize, numGeneratorLayers, numGeneratorNeurons, ...)
\* with the field initializer gVariables = [].
IMLELabModel(source, noise, layers, neurons, uid) ==
  [uid |-> uid, source |-> source, noiseSize |-> noise,
   numGeneratorLayers |-> layers, numGeneratorNeurons |-> neurons,
   gVariables |-> << >>, gOptimizer |-> [kind |-> "none", learningRate |-> 0]]

\* for (let i = 0; i < this.numGeneratorLayers; ++i) push(gfcW, gfcB)
RECURSIVE PushHidden(_, _, _)
PushHidden(g, o, i) ==
  IF i >= o.numGeneratorLayers THEN g
  ELSE PushHidden(
         Push(Push(g, o.uid,
                   << o.numGeneratorNeurons, o.numGeneratorNeurons >>),
              o.uid, << o.numGeneratorNeurons >>),
         o, i + 1)

Ids(g) == { g[k].id : k \in DOMAIN g }

\* initializeModelVariables of the object o with the live tensors h: dispose
\* the variables of this object, then push layer 0, the hidden layers and
\* the output layer.
initializeWithoutOutputLayer(o, h) ==
  LET g0 == Push(Push(<< >>, o.uid, << o.noiseSize, o.numGeneratorNeurons >>),
                 o.uid, << o.numGeneratorNeurons >>)
      g1 == PushHidden(g0, o, 0)
  IN  [imle |-> [o EXCEPT !.gVariables = g1],
       heap |-> (h \ Ids(o.gVariables)) \cup Ids(g1)]

initializeModelVariables(o, h) ==
  LET g0 == Push(Push(<< >>, o.uid, << o.noiseSize, o.numGeneratorNeurons >>),
                 o.uid, << o.numGeneratorNeurons >>)
      g1 == PushHidden(g0, o, 0)
      g2 == Push(Push(g1, o.uid, << o.numGeneratorNeurons, 2 >>),
                 o.uid, << 2 >>)
  IN  [imle |-> [o EXCEPT !.gVariables = g2],
       heap |-> (h \ Ids(o.gVariables)) \cup Ids(g2)]

\* updateOptimizer: the switch of imle_model.ts, the if/else of part_000.
updateOptimizer(o, optimizerType, learningRate) ==
  LET kind ==
        IF o.source = "part_000"
        THEN IF optimizerType = "Adam" THEN "adam" ELSE "sgd"
        ELSE CASE optimizerType = "Adam"    -> "adam"
               [] optimizerType = "Adagrad" -> "adagrad"
               [] optimizerType = "RMSProp" -> "rmsprop"
               [] OTHER                     -> "sgd"
  IN  [o EXCEPT !.gOptimizer = [kind |-> kind, learningRate |-> learningRate]]

\* The indices generator reads in its loop: 2 + i * 2 and 3 + i * 2.
RECURSIVE HiddenReads(_, _)
HiddenReads(o, i) ==
  IF i >= o.numGeneratorLayers THEN << >>
  ELSE << 2 + i * 2, 3 + i * 2 >> \o HiddenReads(o, i + 1)

\* The indices generator reads, in order.
GeneratorReads(o) ==
  << 0, 1 >> \o HiddenReads(o, 0)
     \o << 2 + o.numGeneratorLayers * 2, 3 + o.numGeneratorLayers * 2 >>

\* generator(noiseTensor): a read past the list gives undefined and matMul
\* or add throws; else the output is determined by the input and by the
\* values read.
generator(o, z) ==
  LET reads == GeneratorReads(o)
  IN  IF \E k \in DOMAIN reads : reads[k] >= Len(o.gVariables)
      THEN [status |-> "threw", z |-> z, params |-> << >>]
      ELSE [status |-> "ok", z |-> z,
            params |-> [k \in DOMAIN reads |->
                          o.gVariables[reads[k] + 1].value]]

\* One optimizer.minimize over gVariables.
minimize(o) ==
  [o EXCEPT !.gVariables =
     [k \in DOMAIN @ |-> [@[k] EXCEPT !.value.steps = @ + 1]]]

\* The reduce of onClickSaveModelButton: obj[`g-${i}`] = item.
gTensorsFromOne(o) ==
  [k \in DOMAIN o.gVariables |->
     [name |-> Key(k), tensor |-> o.gVariables[k]]]

gTensors(o) ==
  [k \in DOMAIN o.gVariables |->
     [name |-> Key(k - 1), tensor |-> o.gVariables[k]]]

\* tf.io.encodeWeights: one spec for each entry in the order of the map, the
\* values laid out in the same order.
encodeWeights(tensors) ==
  [specs |-> [k \in DOMAIN tensors |->
                [name |-> tensors[k].name, shape |-> tensors[k].tensor.shape]],
   data  |-> [k \in DOMAIN tensors |-> tensors[k].tensor.value]]

\* tf.io.decodeWeights: the k-th spec names and shapes the k-th slice.
decodeWeights(weightData, weightSpecs) ==
  [k \in DOMAIN weightSpecs |->
     [name |-> weightSpecs[k].name, shape |-> weightSpecs[k].shape,
      value |-> weightData[k]]]

\* decoded[name]
Lookup(decoded, name) ==
  IF \E k \in DOMAIN decoded : decoded[k].name = name
  THEN LET k == CHOOSE k \in DOMAIN decoded : decoded[k].name = name
       IN  [shape |-> decoded[k].shape, value |-> decoded[k].value]
  ELSE Undefined

\* v.assign(x) of tf.Variable: throws unless x is a tensor of the shape of v.
assignReshaping(v, x) ==
  IF x = Undefined THEN [ok |-> FALSE, v |-> v]
  ELSE [ok |-> TRUE, v |-> [v EXCEPT !.shape = x.shape, !.value = x.value]]

assign(v, x) ==
  IF x = Undefined \/ x.shape # v.shape
  THEN [ok |-> FALSE, v |-> v]
  ELSE [ok |-> TRUE, v |-> [v EXCEPT !.value = x.value]]

\* this.gVariables.forEach((v, i) => v.assign(decoded[`g-${i}`])) from
\* index i on: the first throw ends the loop with the earlier variables
\* assigned.
RECURSIVE AssignFrom(_, _, _)
AssignFrom(g, decoded, i) ==
  IF i >= Len(g) THEN [g |-> g, status |-> "ok", at |-> -1]
  ELSE LET r == assign(g[i + 1], Lookup(decoded, Key(i)))
       IN  IF ~r.ok THEN [g |-> g, status |-> "rejected", at |-> i]
           ELSE AssignFrom([g EXCEPT ![i + 1] = r.v], decoded, i + 1)

\* async loadPretrainedWeights: a throw rejects the promise it returns.
loadPretrainedWeights(o, loadedModel) ==
  LET r == AssignFrom(o.gVariables,
                      decodeWeights(loadedModel.weightData,
                                    loadedModel.weightSpecs), 0)
  IN  [imle |-> [o EXCEPT !.gVariables = r.g],
       status |-> r.status, at |-> r.at]

\* The fields of this part as one record; lastOp starts every task empty.
ModelWorld ==
  [noiseSize |-> noiseSize, numGeneratorLayers |-> numGeneratorLayers,
   numGeneratorNeurons |-> numGeneratorNeurons,
   gOptimizerType |-> gOptimizerType, gLearningRate |-> gLearningRate,
   imle |-> imle, heap |-> heap, file |-> file, lastOp |-> NoOp, ok |-> TRUE]

CommitModel(u) ==
  /\ u.ok
  /\ noiseSize' = u.noiseSize
  /\ numGeneratorLayers' = u.numGeneratorLayers
  /\ numGeneratorNeurons' = u.numGeneratorNeurons
  /\ gOptimizerType' = u.gOptimizerType
  /\ gLearningRate' = u.gLearningRate
  /\ imle' = u.imle
  /\ heap' = u.heap
  /\ file' = u.file
  /\ lastOp' = u.lastOp
  /\ UNCHANGED <<nnVars, variant, isPlaying, isPausedOngoingIteration,
                 stepMode, slowMode, iterationCount, kGSteps, model,
                 gVersion, calls, raf, started, optLog, lastAbort, lastEnd>>
  /\ UNCHANGED loadVars

\* The last three statements of createExperiment: this.model = new
\* IMLELabModel(...); initializeModelVariables(); updateOptimizer(...).
createModel(u) ==
  IF u.imle.uid >= MaxMade THEN [u EXCEPT !.ok = FALSE]
  ELSE LET o == IMLELabModel(u.imle.source, u.noiseSize,
                             u.numGeneratorLayers, u.numGeneratorNeurons,
                             u.imle.uid + 1)
           r == initializeModelVariables(o, u.heap)
       IN  [u EXCEPT !.imle = updateOptimizer(r.imle, u.gOptimizerType,
                                              u.gLearningRate),
                     !.heap = r.heap,
                     !.lastOp = [op |-> "create"]]

\* onClickSaveModelButton: the weights under their keys and the config.
onClickSaveModelButton(u) ==
  LET enc == encodeWeights(gTensors(u.imle))
  IN  [u EXCEPT !.file =
         [saved |-> TRUE,
          config |-> [noiseSize |-> u.noiseSize,
                      numGeneratorLayers |-> u.numGeneratorLayers,
                      numGeneratorNeurons |-> u.numGeneratorNeurons,
                      gOptimizerType |-> u.gOptimizerType,
                      gLearningRate |-> u.gLearningRate],
          weightSpecs |-> enc.specs,
          weightData |-> enc.data,
          exported |-> [k \in DOMAIN u.imle.gVariables |->
                          u.imle.gVariables[k].value]],
       !.lastOp = [op |-> "save"]]

\* this.model.loadPretrainedWeights(loadedModel), the promise not awaited.
Load(u) ==
  LET r == loadPretrainedWeights(u.imle, u.file)
  IN  [u EXCEPT !.imle = r.imle,
                !.lastOp = [op |-> "load", status |-> r.status, at |-> r.at]]

\* loadPretrainedWeightFile copies the config of the file into the fields;
\* then createExperiment and loadPretrainedWeights.
loadPretrained(u) ==
  LET u1 == [u EXCEPT !.noiseSize = u.file.config.noiseSize,
                      !.numGeneratorLayers = u.file.config.numGeneratorLayers,
                      !.numGeneratorNeurons = u.file.config.numGeneratorNeurons,
                      !.gOptimizerType = u.file.config.gOptimizerType,
                      !.gLearningRate = u.file.config.gLearningRate]
      u2 == createModel(u1)
  IN  IF u2.ok THEN Load(u2) ELSE u2

\* ---- the tasks of this part ---------------------------------------------

ClickLayersAdd ==
  /\ numGeneratorLayers < MaxLayers
  /\ CommitModel(createModel([ModelWorld EXCEPT !.numGeneratorLayers = @ + 1]))

ClickLayersRemove ==
  /\ numGeneratorLayers > 0
  /\ CommitModel(createModel([ModelWorld EXCEPT !.numGeneratorLayers = @ - 1]))

ClickNeuronsAdd ==
  /\ numGeneratorNeurons < MaxNeurons
  /\ CommitModel(createModel([ModelWorld EXCEPT !.numGeneratorNeurons = @ + 1]))

ClickNeuronsRemove ==
  /\ numGeneratorNeurons > 0
  /\ CommitModel(createModel([ModelWorld EXCEPT !.numGeneratorNeurons = @ - 1]))

NoiseTypeChanged ==
  \E n \in NoiseSizes :
     CommitModel(createModel([ModelWorld EXCEPT !.noiseSize = n]))

SelectOptimizerType ==
  \E t \in OptimizerNames :
     CommitModel([ModelWorld EXCEPT
                    !.gOptimizerType = t,
                    !.imle = updateOptimizer(@, t, gLearningRate),
                    !.lastOp = [op |-> "updateOptimizer"]])

SelectLearningRate ==
  \E r \in learningRateOptions :
     CommitModel([ModelWorld EXCEPT
                    !.gLearningRate = r,
                    !.imle = updateOptimizer(@, gOptimizerType, r),
                    !.lastOp = [op |-> "updateOptimizer"]])

ClickSaveModel == CommitModel(onClickSaveModelButton(ModelWorld))

\* The pre-trained checkbox turned on, with the saved file served.
TogglePretrained ==
  /\ file.saved
  /\ CommitModel(loadPretrained(ModelWorld))

\* loadPretrainedWeights called on the current model with the file.
CallLoadPretrainedWeights ==
  /\ file.saved
  /\ CommitModel(Load(ModelWorld))

\* One forward pass of the current model.
CallGenerator ==
  CommitModel([ModelWorld EXCEPT
                 !.lastOp = [op |-> "generator", out |-> generator(imle, 1)]])

\* One optimizer step on the current model.
OptimizerStep ==
  /\ \A k \in DOMAIN imle.gVariables : imle.gVariables[k].value.steps < MaxSteps
  /\ CommitModel([ModelWorld EXCEPT !.imle = minimize(@),
                                    !.lastOp = [op |-> "minimize"]])

\* The object made by the createExperiment of ready().
FirstModel(source, noise, layers, neurons, optimizerType, learningRate) ==
  updateOptimizer(
    initializeModelVariables(
      IMLELabModel(source, noise, layers, neurons, 0), {}).imle,
    optimizerType, learningRate)

InitModel(source, layers, neurons) ==
  /\ numGeneratorLayers = layers
  /\ numGeneratorNeurons = neurons
  /\ gOptimizerType = "SGD"
  /\ gLearningRate = 30
  /\ imle = FirstModel(source, 2, layers, neurons, "SGD", 30)
  /\ heap = Ids(imle.gVariables)
  /\ file = NoFile
  /\ lastOp = NoOp
  /\ usePretrained = FALSE
  /\ selectedShapeName = "ring"
  /\ loads = << >>

\* The model object where it is not looked at.
IdleModel == InitModel("imle_model.ts", 1, 2)

\* ---- specifications -----------------------------------------------------

IdleNN ==
  /\ realData = [i \in {0} |-> <<0, 0>>]
  /\ generatedData = [i \in {0} |-> <<0, 0>>]
  /\ distanceType = "L2"
  /\ epsilon = 0
  /\ labEpsilon = 0
  /\ nn = NoCall

\* The state after ready() and its createExperiment().
InitLab(v) ==
  /\ variant = v
  /\ isPlaying = FALSE
  /\ isPausedOngoingIteration = FALSE
  /\ stepMode = FALSE
  /\ slowMode = FALSE
  /\ iterationCount = 0
  /\ kGSteps \in 0 .. MaxK
  /\ noiseSize = 2
  /\ model = 0
  /\ gVersion = 0
  /\ calls = << >>
  /\ raf = 0
  /\ started = 0
  /\ optLog = NoLog
  /\ lastAbort = NoAbort
  /\ lastEnd = NoEnd

Init == IdleNN /\ InitLab("part_001") /\ IdleModel

Next ==
  \/ ClickPlayPause
  \/ ClickNextStep
  \/ ClickStepMode
  \/ ClickSlowMode
  \/ ClickKGStepsAdd
  \/ ClickKGStepsRemove
  \/ ChangeArchitecture
  \/ SelectNoiseType
  \/ ClickReset
  \/ TimerCheck
  \/ AnimationFrame

Spec == Init /\ [][Next]_vars

\* imlelab.ts; gVersion counts the optimizer steps applied from here on.
InitDemo == IdleNN /\ InitLab("demo") /\ IdleModel

NextDemo ==
  \/ ClickPlayPause
  \/ ClickNextStep
  \/ ClickStepMode
  \/ ClickSlowMode
  \/ ClickKGStepsAdd
  \/ ClickKGStepsRemove
  \/ ChangeArchitecture
  \/ SelectNoiseType
  \/ TimerCheck
  \/ AnimationFrame

SpecDemo == InitDemo /\ [][NextDemo]_vars

\* ---- continuous play near the ceiling -------------------------------------
\* Either source after a long run that was paused one or two iterations below
\* the ceiling of iterationCount; started counts the calls from here on.
InitCeiling ==
  /\ IdleNN
  /\ IdleModel
  /\ variant \in { "part_001", "demo" }
  /\ isPlaying = FALSE
  /\ isPausedOngoingIteration = FALSE
  /\ stepMode = FALSE
  /\ slowMode \in BOOLEAN
  /\ iterationCount \in { IterationCeiling - 2, IterationCeiling - 1 }
  /\ kGSteps \in 0 .. MaxK
  /\ noiseSize = 2
  /\ model = 0
  /\ gVersion = 0
  /\ calls = << >>
  /\ raf = 0
  /\ started = 0
  /\ optLog = NoLog
  /\ lastAbort = NoAbort
  /\ lastEnd = NoEnd

\* The one click that starts continuous play.
StartPlay ==
  /\ started = 0
  /\ ~isPlaying
  /\ ClickPlayPause

\* Uninterrupted: after the click only timers and animation frames run.
NextCeiling ==
  \/ StartPlay
  \/ TimerCheck
  \/ AnimationFrame

SpecCeiling == InitCeiling /\ [][NextCeiling]_vars

\* ---- nearest_neighbour on drawn inputs ------------------------------------

InitNN ==
  /\ \E n \in 1 .. MaxReal : realData \in [0 .. n - 1 -> RealPoints]
  /\ \E n \in 1 .. MaxGen  : generatedData \in [0 .. n - 1 -> GenPoints]
  /\ distanceType \in DistanceTypes
  /\ epsilon \in Epsilons
  /\ labEpsilon = epsilon
  /\ nn = NoCall
  /\ InitLab("part_001")
  /\ kGSteps = 0
  /\ IdleModel

\* One call of model.nearest_neighbour on the current inputs.
CallNearestNeighbour ==
  /\ ~nn.called
  /\ nn' = nearest_neighbour(distanceType, epsilon, realData, generatedData)
  /\ UNCHANGED <<realData, generatedData, distanceType, epsilon, labEpsilon>>
  /\ UNCHANGED <<labVars, modelVars, loadVars>>

\* The distance dropdown: this.model.distanceType = event.detail.selected.
SelectDistanceType ==
  /\ \E t \in distanceTypeOptions \ {distanceType} : distanceType' = t
  /\ nn' = NoCall
  /\ UNCHANGED <<realData, generatedData, epsilon, labEpsilon>>
  /\ UNCHANGED <<labVars, modelVars, loadVars>>

NextNN == CallNearestNeighbour \/ SelectDistanceType

SpecNN == InitNN /\ [][NextNN]_vars

\* ---- the rejection threshold of the lab and of its model ----------------

\* The epsilon dropdown: this.epsilon = event.detail.selected.
SelectEpsilon ==
  /\ \E e \in Epsilons \ { labEpsilon } : labEpsilon' = e
  /\ nn' = NoCall
  /\ UNCHANGED <<realData, generatedData, distanceType, epsilon>>
  /\ UNCHANGED <<labVars, modelVars, loadVars>>

\* createExperiment: new IMLELabModel(..., this.distanceType, this.epsilon).
NewExperiment ==
  /\ epsilon' = labEpsilon
  /\ nn' = NoCall
  /\ UNCHANGED <<realData, generatedData, distanceType, labEpsilon>>
  /\ UNCHANGED <<labVars, modelVars, loadVars>>

NextEpsilon ==
  \/ CallNearestNeighbour
  \/ SelectDistanceType
  \/ SelectEpsilon
  \/ NewExperiment

SpecEpsilon == InitNN /\ [][NextEpsilon]_vars

\* ---- the model object under architecture changes, saves and loads --------

InitArch ==
  /\ IdleNN
  /\ InitLab("part_001")
  /\ kGSteps = 0
  /\ \E layers \in { 0, 1 } : \E neurons \in { 1, 2, MaxNeurons } :
        InitModel("imle_model.ts", layers, neurons)

NextArch ==
  \/ ClickLayersAdd
  \/ ClickLayersRemove
  \/ ClickNeuronsAdd
  \/ ClickNeuronsRemove
  \/ NoiseTypeChanged
  \/ ClickSaveModel
  \/ TogglePretrained
  \/ CallLoadPretrainedWeights
  \/ CallGenerator
  \/ OptimizerStep

SpecArch == InitArch /\ [][NextArch]_vars

\* ---- the values a forward pass computes ---------------------------------
\* Numbers are in thousandths.  The network has one latent coordinate and one
\* neuron in each layer, so every matMul is one product; the output layer
\* has its two coordinates.

\* The latents, weights and biases a forward pass is tried on.
Latents     == { -2000, 0, 1500 }
Weights     == { -5000, -700, 0, 1000, 5000 }
LastWeights == { -5000, 0, 700 }
Biases      == { 0, 2000 }

\* h.matMul(W).add(B) for one neuron.
Dense(h, w, b) == (h * w) \div 1000 + b

\* leaky(x): tf.maximum(x, x * 0.01)
leaky(x) == IF x >= x \div 100 THEN x ELSE x \div 100

\* relu of the older class.
relu(x) == IF x >= 0 THEN x ELSE 0

Activation(source, x) ==
  IF source = "imle_model.ts" THEN leaky(x) ELSE relu(x)

\* exp(-t) for t >= 0, in ten-thousandths: 0 once it is below the
\* resolution, the Taylor polynomial up to t = 0.125, else the square of
\* exp(-t/2).  The result is within 0 .. 10000.
RECURSIVE ExpNeg(_)
ExpNeg(t) ==
  IF t >= 20000 THEN 0
  ELSE IF t <= 125
       THEN 10000 - 10 * t + (t * t) \div 200 - (t * t * t) \div 600000
       ELSE LET h == ExpNeg(t \div 2) IN (h * h) \div 10000

\* tanh(x) = sign(x) * (1 - e) / (1 + e) with e = exp(-2|x|).
Tanh(x) ==
  LET e == ExpNeg(2 * Abs(x))
      m == ((10000 - e) * 1000) \div (10000 + e)
  IN  IF x < 0 THEN 0 - m ELSE m

\* The last expression of generator: .tanh().add(tf.scalar(0.5)) in
\* imle_model.ts, .tanh() in the older class.
SquashWithoutTanh(source, pre) ==
  IF source = "imle_model.ts" THEN pre + 500 ELSE pre

Squash(source, pre) ==
  IF source = "imle_model.ts" THEN Tanh(pre) + 500 ELSE Tanh(pre)

\* generator(noiseTensor) on one latent z: layer 0, the hidden layers, the
\* output layer with the weights wLast and biases bLast of its coordinates.
Forward(source, layers, z, w0, wHidden, wLast, b) ==
  LET h0 == Activation(source, Dense(z, w0, b))
      h1 == IF layers = 0 THEN h0
            ELSE Activation(source, Dense(h0, wHidden, b))
  IN  [c \in 1 .. 2 |-> Squash(source, Dense(h1, wLast[c], b))]

\* One call of generator on drawn parameters and a drawn latent.
CallForward ==
  \E source \in ModelSources, layers \in 0 .. 1, z \in Latents,
     w0 \in Weights, wHidden \in Weights,
     wLast \in [1 .. 2 -> LastWeights], b \in Biases :
     CommitModel([ModelWorld EXCEPT
        !.lastOp = [op |-> "forward", source |-> source, z |-> z,
                    out |-> Forward(source, layers, z, w0, wHidden,
                                    wLast, b)]])

InitForward ==
  /\ IdleNN
  /\ InitLab("part_001")
  /\ kGSteps = 0
  /\ IdleModel

NextForward == CallForward

SpecForward == InitForward /\ [][NextForward]_vars

\* ---- pre-trained mode: the weight file fetched and applied ---------------

\* Bound: calls of loadPretrainedWeightFile whose file has not arrived.
MaxLoads == 2

\* this.shapeNames, of which two with a file and 'drawing'.
ShapeNames == { "line", "ring", "drawing" }

\* pretrained_models/pretrained_<shape>.json: a file as onClickSaveModelButton
\* writes it, from a model of the architecture in its config.  The file of
\* 'ring' was saved with kGSteps = 1 at iteration 5, that of 'line' with
\* kGSteps = 0 at iteration 7.
ServerFile(shape) ==
  LET ring == shape = "ring"
      o == initializeModelVariables(
             IMLELabModel("imle_model.ts", 2, IF ring THEN 1 ELSE 0, 2,
                          IF ring THEN -1 ELSE -2), {}).imle
      enc == encodeWeights(gTensors(o))
  IN  [saved |-> TRUE,
       shape_name |-> shape,
       iter_count |-> IF ring THEN 5 ELSE 7,
       config |-> [noiseSize |-> 2,
                   numGeneratorLayers |-> IF ring THEN 1 ELSE 0,
                   numGeneratorNeurons |-> 2,
                   gOptimizerType |-> "SGD",
                   gLearningRate |-> 30,
                   kGSteps |-> IF ring THEN 1 ELSE 0],
       weightSpecs |-> enc.specs,
       weightData |-> enc.data,
       exported |-> [k \in DOMAIN o.gVariables |-> o.gVariables[k].value]]

\* The lab, its model object and the pre-trained mode as one record.
Lab ==
  [w |-> World, u |-> ModelWorld, usePretrained |-> usePretrained,
   selectedShapeName |-> selectedShapeName, loads |-> loads]

CommitLab(p) ==
  /\ p.w.ok
  /\ p.u.ok
  /\ variant' = p.w.variant
  /\ isPlaying' = p.w.isPlaying
  /\ isPausedOngoingIteration' = p.w.isPausedOngoingIteration
  /\ stepMode' = p.w.stepMode
  /\ slowMode' = p.w.slowMode
  /\ iterationCount' = p.w.iterationCount
  /\ kGSteps' = p.w.kGSteps
  /\ noiseSize' = p.u.noiseSize
  /\ model' = p.w.model
  /\ gVersion' = p.w.gVersion
  /\ calls' = p.w.calls
  /\ raf' = p.w.raf
  /\ started' = p.w.started
  /\ optLog' = p.w.optLog
  /\ lastAbort' = p.w.lastAbort
  /\ lastEnd' = p.w.lastEnd
  /\ numGeneratorLayers' = p.u.numGeneratorLayers
  /\ numGeneratorNeurons' = p.u.numGeneratorNeurons
  /\ gOptimizerType' = p.u.gOptimizerType
  /\ gLearningRate' = p.u.gLearningRate
  /\ imle' = p.u.imle
  /\ heap' = p.u.heap
  /\ file' = p.u.file
  /\ lastOp' = p.u.lastOp
  /\ usePretrained' = p.usePretrained
  /\ selectedShapeName' = p.selectedShapeName
  /\ loads' = p.loads
  /\ UNCHANGED nnVars

disabledPretrainedMode(p) == [p EXCEPT !.usePretrained = FALSE]

\* createExperiment as a whole: the reset of the lab and the new model
\* object, this.model being that object.
createExperimentWithModel(p) ==
  LET u1 == createModel(p.u)
      w1 == pause(p.w)
  IN  [p EXCEPT
         !.u = u1,
         !.w = [w1 EXCEPT !.iterationCount = 0,
                          !.isPausedOngoingIteration = FALSE,
                          !.noiseSize = p.u.noiseSize,
                          !.model = IF u1.ok THEN u1.imle.uid ELSE @,
                          !.gVersion = 0]]

\* loadPretrainedWeightFile up to its await handler.load(): the request is
\* on its way; then tells which .then callback waits for it.
Fetch(p, then) ==
  IF Len(p.loads) >= MaxLoads THEN [p EXCEPT !.w.ok = FALSE]
  ELSE [p EXCEPT !.loads = Append(@, [shape |-> p.selectedShapeName,
                                      then |-> then])]

\* loadModelAndCreateExperiment with the pre-trained branch; in imlelab.ts
\* the last branch fetches the file too.
loadModelAndCreateExperimentWithFile(p) ==
  IF p.selectedShapeName = "drawing"
  THEN disabledPretrainedMode([p EXCEPT !.w = pause(@)])
  ELSE IF p.usePretrained THEN Fetch(p, "load")
  ELSE IF p.w.variant = "demo" THEN Fetch(p, "create")
  ELSE createExperimentWithModel(p)

\* optimizer.minimize n times on the object o.
RECURSIVE MinimizeTimes(_, _)
MinimizeTimes(o, n) == IF n = 0 THEN o ELSE MinimizeTimes(minimize(o), n - 1)

\* The rest of loadPretrainedWeightFile once the file f has arrived: the
\* iteration count and the properties of the config are copied to the lab
\* (those the model holds; distanceType and the discriminator's are left out).
CopyConfig(p, f) ==
  [p EXCEPT !.w.iterationCount = f.iter_count,
            !.w.kGSteps = f.config.kGSteps,
            !.u.noiseSize = f.config.noiseSize,
            !.u.numGeneratorLayers = f.config.numGeneratorLayers,
            !.u.numGeneratorNeurons = f.config.numGeneratorNeurons,
            !.u.gOptimizerType = f.config.gOptimizerType,
            !.u.gLearningRate = f.config.gLearningRate]

\* The .then callback of the pre-trained branch: createExperiment, the
\* weights, one iteration for visualization, the iteration count restored.
ApplyPretrained(p, f) ==
  LET loadedIterCount == p.w.iterationCount
      p1 == createExperimentWithModel(p)
      r  == loadPretrainedWeights(p1.u.imle, f)
      w2 == iterateTraining([p1.w EXCEPT !.isPlaying = TRUE], FALSE, NoFail)
      o2 == MinimizeTimes(r.imle, Len(w2.optLog.steps))
  IN  IF ~p1.u.ok THEN p1
      ELSE [p1 EXCEPT
              !.w = [w2 EXCEPT !.isPlaying = FALSE,
                               !.iterationCount = loadedIterCount],
              !.u.imle = o2,
              !.u.lastOp = [op |-> "pretrained", status |-> r.status,
                            shape |-> f.shape_name,
                            weightData |-> f.weightData]]

\* ---- the tasks of the pre-trained mode -----------------------------------

\* The pre-trained checkbox.
ChangePretrained ==
  \E checked \in BOOLEAN :
     CommitLab(loadModelAndCreateExperimentWithFile(
                 [Lab EXCEPT !.usePretrained = checked]))

\* changeDataset: a click on a distribution item.
ChangeDataset ==
  \E shape \in ShapeNames :
     CommitLab(loadModelAndCreateExperimentWithFile(
                 disabledPretrainedMode(
                   [Lab EXCEPT !.selectedShapeName = shape])))

\* A click on g-layers-add or g-layers-remove.
ChangeLayers ==
  \E d \in { -1, 1 } :
     /\ numGeneratorLayers + d >= 0
     /\ numGeneratorLayers + d <= MaxLayers
     /\ CommitLab(createExperimentWithModel(
                    disabledPretrainedMode(
                      [Lab EXCEPT !.u.numGeneratorLayers = @ + d])))

\* The file of a pending fetch arrives.
LoadResolves ==
  \E i \in 1 .. Len(loads) :
     LET f  == ServerFile(loads[i].shape)
         p1 == CopyConfig(
                 [Lab EXCEPT !.loads = SubSeq(@, 1, i - 1)
                                         \o SubSeq(@, i + 1, Len(@))], f)
     IN  CommitLab(IF loads[i].then = "load"
                   THEN ApplyPretrained(p1, f)
                   ELSE createExperimentWithModel(p1))

InitPretrained ==
  /\ IdleNN
  /\ \E v \in { "part_001", "demo" } : InitLab(v)
  /\ IdleModel

NextPretrained ==
  \/ ChangePretrained
  \/ ChangeDataset
  \/ ChangeLayers
  \/ LoadResolves
  \/ AnimationFrame

SpecPretrained == InitPretrained /\ [][NextPretrained]_vars

\* ---- updateOptimizer of either version of the class ----------------------

InitOptimizer ==
  /\ IdleNN
  /\ InitLab("part_001")
  /\ kGSteps = 0
  /\ \E source \in ModelSources : InitModel(source, 1, 2)

NextOptimizer ==
  \/ SelectOptimizerType
  \/ SelectLearningRate
  \/ ClickNeuronsAdd
  \/ ClickNeuronsRemove

SpecOptimizer == InitOptimizer /\ [][NextOptimizer]_vars

(***************************************************************************)
(*                Properties of nearest_neighbour (SpecNN)                 *)
(***************************************************************************)

PoolIndices == DOMAIN generatedData

RealIndices == DOMAIN realData

\* C1: for any epsilon >= 0, any distance metric and any non-empty candidate
\* pool, the final keep mask (rejection filter OR force-keep indicator) has
\* at least one true entry.
C1_KeepMaskNotEmpty ==
  nn.called => \E j \in PoolIndices : nn.keepMask[j]

\* The rejection filter alone rejects every candidate, and the mask keeps one.
C1_Witness ==
  /\ nn.called
  /\ \A j \in PoolIndices : ~nn.filter[j]
  /\ nn.keepMask[nn.farIdx]

\* C2: for every real point i the returned index lies in [0, poolSize), and
\* whenever some candidate survives the unforced rejection filter the index
\* is that of a candidate whose keep-mask entry is true.
C2_IndexInKeptColumn ==
  nn.called =>
    \A i \in RealIndices :
       /\ nn.idx[i] \in PoolIndices
       /\ (\E j \in PoolIndices : nn.filter[j]) => nn.keepMask[nn.idx[i]]

\* A candidate survives the filter, and for some real point a rejected
\* candidate is strictly nearer than the one returned.
C2_Witness ==
  /\ nn.called
  /\ \E j \in PoolIndices : nn.filter[j]
  /\ \E i \in RealIndices : \E j \in PoolIndices :
        /\ ~nn.keepMask[j]
        /\ nn.distances[i][j] < nn.distances[i][nn.idx[i]]
        /\ nn.keepMask[nn.idx[i]]

\* Scenario B: real points (0,0), (1,1); candidates (0,0), (1,1), (0.5,0.5);
\* epsilon = 0.1; the L2 metric.
ScenarioB ==
  /\ realData = [i \in 0 .. 1 |-> IF i = 0 THEN <<0, 0>> ELSE <<2, 2>>]
  /\ generatedData =
       [j \in 0 .. 2 |-> CASE j = 0 -> <<0, 0>> [] j = 1 -> <<2, 2>> [] OTHER -> <<1, 1>>]
  /\ epsilon = 100
  /\ distanceType = "L2"

\* C3: in Scenario B candidates 0 and 1 are rejected, candidate 2 is kept and
\* the returned match indices are [2, 2].
C3_ScenarioB ==
  (ScenarioB /\ nn.called) =>
     /\ nn.keepMask = [j \in 0 .. 2 |-> j = 2]
     /\ nn.idx = [i \in 0 .. 1 |-> 2]

\* Scenario B after the call, with the minimum distances the scenario states.
C3_Witness ==
  /\ ScenarioB
  /\ nn.called
  /\ nn.minDistToReal = [j \in 0 .. 2 |-> IF j = 2 THEN 500 ELSE 0]

C22_DistancesNotNegative ==
  nn.called =>
    \A i \in RealIndices : \A j \in PoolIndices :
       /\ distanceType \in { "L1", "L2" } => nn.distances[i][j] >= 0
       /\ distanceType = "Barrier" =>
            /\ 100000 * Euclid(realData[i], generatedData[j]) + 1 > 0
            /\ nn.distances[i][j] >= Euclid(realData[i], generatedData[j])
            /\ nn.distances[i][j] >= 0

\* The Barrier metric on a candidate that coincides with a real point: the
\* denominator is eps alone and the entry is the penalty, above the
\* Euclidean distance 0.
C22_Witness ==
  /\ nn.called
  /\ distanceType = "Barrier"
  /\ \E i \in RealIndices : \E j \in PoolIndices :
        /\ realData[i] = generatedData[j]
        /\ nn.distances[i][j] > Euclid(realData[i], generatedData[j])

\* C23: the rejection filter keeps candidate j iff every real point is at a
\* distance strictly greater than epsilon from it; with epsilon = 0 a
\* candidate at distance 0 from a real point is rejected and one at positive
\* distance from all of them is kept.
C23_KeptIffFartherThanEpsilon ==
  nn.called =>
    \A j \in PoolIndices :
       /\ nn.filter[j] <=> (\A i \in RealIndices : nn.distances[i][j] > epsilon)
       /\ (epsilon = 0 /\ \E i \in RealIndices : nn.distances[i][j] = 0)
             => ~nn.filter[j]
       /\ (epsilon = 0 /\ \A i \in RealIndices : nn.distances[i][j] > 0)
             => nn.filter[j]

\* A candidate whose minimum distance equals a positive epsilon is rejected,
\* and with it one that is kept.
C23_Witness ==
  /\ nn.called
  /\ epsilon > 0
  /\ \E j \in PoolIndices : nn.minDistToReal[j] = epsilon /\ ~nn.filter[j]
  /\ \E j \in PoolIndices : nn.filter[j]

\* C24: the keep mask is the filter with one entry set, that of the lowest
\* index holding the largest minDistToReal.  If the filter rejects every
\* candidate every real point is matched to that index; if it keeps one, it
\* keeps that index too and the mask is the filter.
C24_ForceKeepAddsFarthest ==
  nn.called =>
    /\ nn.keepMask = [j \in PoolIndices |-> nn.filter[j] \/ j = nn.farIdx]
    /\ \A j \in PoolIndices :
          nn.minDistToReal[j] < nn.minDistToReal[nn.farIdx]
          \/ (nn.minDistToReal[j] = nn.minDistToReal[nn.farIdx]
              /\ nn.farIdx <= j)
    /\ (\A j \in PoolIndices : ~nn.filter[j]) =>
          (\A i \in RealIndices : nn.idx[i] = nn.farIdx)
    /\ (\E j \in PoolIndices : nn.filter[j]) =>
          (nn.filter[nn.farIdx] /\ nn.keepMask = nn.filter)

\* Every candidate is rejected by the filter, two tie for the largest
\* minimum distance, and some real point has a nearer candidate than the one
\* it is matched to.
C24_Witness ==
  /\ nn.called
  /\ \A j \in PoolIndices : ~nn.filter[j]
  /\ \E j \in PoolIndices :
        j # nn.farIdx /\ nn.minDistToReal[j] = nn.minDistToReal[nn.farIdx]
  /\ \E i \in RealIndices : \E j \in PoolIndices :
        nn.distances[i][j] < nn.distances[i][nn.idx[i]]

\* C30: with the L1 or L2 metric and no candidate rejected by the filter,
\* nearest_neighbour returns the indices of the matcher without rejection.
C30_SameAsPlainMatcher ==
  (/\ nn.called
   /\ distanceType \in { "L1", "L2" }
   /\ \A j \in PoolIndices : nn.filter[j]) =>
     nn.idx = legacy_nearest_neighbour(distanceType, realData, generatedData)

\* No candidate is rejected, the real points are matched to different
\* candidates and one of them has two candidates at its minimum distance.
C30_Witness ==
  /\ nn.called
  /\ distanceType \in { "L1", "L2" }
  /\ \A j \in PoolIndices : nn.filter[j]
  /\ nn.idx = legacy_nearest_neighbour(distanceType, realData, generatedData)
  /\ \E i, k \in RealIndices : nn.idx[i] # nn.idx[k]
  /\ \E i \in RealIndices : \E j \in PoolIndices :
        j # nn.idx[i] /\ nn.distances[i][j] = nn.distances[i][nn.idx[i]]

\* C26: the threshold a call of nearest_neighbour compares against is the
\* one selected in the lab at the time of the call.
C26_ThresholdIsSelectedEpsilon ==
  nn.called =>
    nn.filter = [j \in PoolIndices |-> nn.minDistToReal[j] > labEpsilon]

(***************************************************************************)
(*              Properties of iterateTraining (Spec, SpecDemo)             *)
(***************************************************************************)

StepsApplied == DOMAIN optLog.steps

\* C5: every optimizer step of one iteration uses the same real batch and
\* the same matched assignment, computed once in the iteration.
C5_SameBatchAndAssignment ==
  \A j, k \in StepsApplied :
     /\ optLog.steps[j].real = optLog.steps[k].real
     /\ optLog.steps[j].idx = optLog.steps[k].idx

\* C6: the optimizer steps of a call consume the real batch, the latent pool
\* and the match indices made in that call, the indices having been matched
\* on that real batch and on the points generated from that latent pool.
C6_OwnTensorsInOrder ==
  \A j \in StepsApplied :
     LET st == optLog.steps[j]
     IN  /\ st.real.by = optLog.by
         /\ st.latents.by = optLog.by
         /\ st.idx.by = optLog.by
         /\ st.idx.gen.by = optLog.by
         /\ st.idx.real = st.real
         /\ st.idx.gen.latents = st.latents

\* A call applied its optimizer steps while another call was suspended.
C6_Witness ==
  /\ StepsApplied # {}
  /\ \E i \in 1 .. Len(calls) : calls[i].id # optLog.by
  /\ optLog.steps[1].idx.by = optLog.by

\* C7: an iteration optimises only the model instance its match indices
\* were computed for.
C7_OptimisesMatchedModel ==
  \A j \in StepsApplied :
     optLog.steps[j].model = optLog.steps[j].idx.gen.model

\* C8: when sampling, generation or matching throws, no optimizer step of
\* that iteration has been applied.
C8_NoStepBeforeFailure ==
  lastAbort.stage \in Failures =>
     lastAbort.applied = 0 /\ StepsApplied = {}

\* C9: at most one iteration is in progress: no call starts while another
\* has not finished.
C9_OneIterationInProgress == Len(calls) <= 1

C13_TensorsReleasedAtEnd == lastEnd.by # 0 => lastEnd.live = {}

\* C18: the parameters of a model change only by the optimizer steps of the
\* optimizing stage, one version for each step; sampling, the forward pass,
\* matching and the loss display leave them as they are.
C18_OnlyOptimizerChangesParameters ==
  [][(model' = model /\ gVersion' # gVersion) =>
        /\ optLog'.steps # << >>
        /\ gVersion' = gVersion + Len(optLog'.steps)]_vars

\* A call has run the generator, nearest_neighbour and the loss display, and
\* no optimizer step has been applied to the model.
C18_Witness ==
  /\ gVersion = 0
  /\ \E i \in 1 .. Len(calls) :
        calls[i].pc = 4 /\ calls[i].genPoolTrain.model = model


\* C19: in uninterrupted continuous play iterationCount never passes the
\* ceiling: the iteration that finishes with the count at the ceiling clears
\* isPlaying, and from then on no call starts an iteration body.
C19_CeilingStopsPlay ==
  /\ [](iterationCount <= IterationCeiling)
  /\ []((lastEnd.path = "finished" /\ iterationCount >= IterationCeiling)
          => ~isPlaying)
  /\ [][(iterationCount >= IterationCeiling /\ calls = << >>)
          => (started' = started /\ iterationCount' = iterationCount)]_vars

\* An iteration has finished at the ceiling and the call it scheduled has
\* run and returned without training.
C19_Witness ==
  /\ iterationCount = IterationCeiling
  /\ ~isPlaying
  /\ started >= 1
  /\ raf = 0
  /\ calls = << >>
  /\ lastEnd.by = 0

\* The sum of the squared coordinate differences of every real and
\* generated point, in thousandths (coordinates are half units).
SquaredDifferences ==
  [i \in DOMAIN realData |->
     [j \in DOMAIN generatedData |->
        LET dx == realData[i][1] - generatedData[j][1]
            dy == realData[i][2] - generatedData[j][2]
        IN  250 * (dx * dx + dy * dy)]]

\* C16: with any distanceType other than "L1" and "Barrier", unknown names
\* included, nearest_neighbour returns and its distance matrix is the sum of
\* squared differences, in imle_model.ts and in part_000.
C16_OtherNamesAreL2 ==
  (nn.called /\ distanceType \notin { "L1", "Barrier" }) =>
     /\ nn.distances = SquaredDifferences
     /\ LegacyDistances(distanceType, realData, generatedData)
          = SquaredDifferences

\* nearest_neighbour has returned for an unknown name on points whose L1 and
\* squared distances differ.
C16_Witness ==
  /\ nn.called
  /\ distanceType = "Foo"
  /\ nn.distances = SquaredDifferences
  /\ \E i \in DOMAIN realData : \E j \in DOMAIN generatedData :
        nn.distances[i][j] # DistL1(realData[i], generatedData[j])

(***************************************************************************)
(*            Properties of the model object and the weight file           *)
(***************************************************************************)

\* The indices of the parameter list of the current model.
ParameterIndices == 0 .. Len(imle.gVariables) - 1

\* C11: gVariables has 2 + 2*numGeneratorLayers + 2 entries, a weight matrix
\* at every even index and a bias vector after it, whatever forward passes,
\* optimizer steps and loads were made, so every index generator reads is in
\* the list and no forward pass fails on a missing parameter.
C11_ParameterListLength ==
  /\ Len(imle.gVariables) = 2 + 2 * imle.numGeneratorLayers + 2
  /\ \A i \in ParameterIndices :
        Len(imle.gVariables[i + 1].shape) = (IF i % 2 = 0 THEN 2 ELSE 1)
  /\ \A i \in 0 .. imle.numGeneratorLayers - 1 :
        { 2 + 2 * i, 3 + 2 * i } \subseteq ParameterIndices
  /\ { 0, 1, 2 + 2 * imle.numGeneratorLayers,
       3 + 2 * imle.numGeneratorLayers } \subseteq ParameterIndices
  /\ lastOp.op = "generator" => lastOp.out.status = "ok"

\* A forward pass of a model with hidden layers whose parameters were loaded
\* from a file and then stepped by the optimizer.
C11_Witness ==
  /\ lastOp.op = "generator"
  /\ lastOp.out.status = "ok"
  /\ imle.numGeneratorLayers > 0
  /\ \E i \in ParameterIndices :
        /\ imle.gVariables[i + 1].value.from # imle.gVariables[i + 1].id
        /\ imle.gVariables[i + 1].value.steps > 0

\* C12: the only live parameter tensors are those of the current model.
C12_OnlyCurrentParametersLive ==
  /\ heap = Ids(imle.gVariables)
  /\ Cardinality(heap) = 2 * imle.numGeneratorLayers + 4

\* The shape of parameter i in the architecture of the object o.
ArchitectureShape(o, i) ==
  CASE i = 0 -> << o.noiseSize, o.numGeneratorNeurons >>
    [] i = 2 * o.numGeneratorLayers + 2 -> << o.numGeneratorNeurons, 2 >>
    [] i = 2 * o.numGeneratorLayers + 3 -> << 2 >>
    [] i % 2 = 1 /\ i < 2 * o.numGeneratorLayers + 2
         -> << o.numGeneratorNeurons >>
    [] OTHER -> << o.numGeneratorNeurons, o.numGeneratorNeurons >>

\* The file holds no tensor under "g-i", or one of another shape than
\* parameter i of the current architecture.
StaleAt(i) ==
  \/ \A k \in DOMAIN file.weightSpecs : file.weightSpecs[k].name # Key(i)
  \/ \E k \in DOMAIN file.weightSpecs :
        /\ file.weightSpecs[k].name = Key(i)
        /\ file.weightSpecs[k].shape # ArchitectureShape(imle, i)

\* C14: a load from a file that lacks a key or holds another shape under it
\* is rejected at such a key, and no load, rejected or not, changes the
\* shape of a parameter.
C14_StaleFileRejected ==
  lastOp.op = "load" =>
     /\ (\E i \in 0 .. 2 * imle.numGeneratorLayers + 3 : StaleAt(i)) =>
           (lastOp.status = "rejected" /\ StaleAt(lastOp.at))
     /\ \A i \in ParameterIndices :
           imle.gVariables[i + 1].shape = ArchitectureShape(imle, i)

\* A load rejected at a parameter after the first: a file of another width
\* or depth than the current model's.
C14_Witness ==
  /\ lastOp.op = "load"
  /\ lastOp.status = "rejected"
  /\ lastOp.at > 0
  /\ StaleAt(lastOp.at)

\* The file was exported from a model of the architecture of the current one.
SameArchitecture ==
  /\ file.config.noiseSize = imle.noiseSize
  /\ file.config.numGeneratorLayers = imle.numGeneratorLayers
  /\ file.config.numGeneratorNeurons = imle.numGeneratorNeurons

C17_OptimizerByName ==
  imle.gOptimizer =
    [kind |-> CASE gOptimizerType = "Adam"    -> "adam"
                [] gOptimizerType = "Adagrad" -> "adagrad"
                [] gOptimizerType = "RMSProp" -> "rmsprop"
                [] OTHER                      -> "sgd",
     learningRate |-> gLearningRate]

\* C20: the hidden width stays within 1 .. 100, in the field and in the
\* model built from it.
C20_NeuronsWithinRange ==
  /\ numGeneratorNeurons \in 1 .. MaxNeurons
  /\ imle.numGeneratorNeurons \in 1 .. MaxNeurons

\* C21: every coordinate generator outputs is within [-0.5, 1.5] in
\* imle_model.ts (shifted tanh) and within [-1, 1] in the older class (tanh).
C21_OutputWithinRange ==
  lastOp.op = "forward" =>
    \A c \in 1 .. 2 :
       IF lastOp.source = "imle_model.ts"
       THEN lastOp.out[c] >= -500 /\ lastOp.out[c] <= 1500
       ELSE lastOp.out[c] >= -1000 /\ lastOp.out[c] <= 1000

\* A forward pass of the shifted variant with one coordinate saturated at the
\* lower end of the range and the other strictly inside it, not at the
\* centre.
C21_Witness ==
  /\ lastOp.op = "forward"
  /\ lastOp.source = "imle_model.ts"
  /\ lastOp.out[1] = -500
  /\ lastOp.out[2] > 500
  /\ lastOp.out[2] < 1500

\* C25: a call that runs its optimizing stage to the end applies exactly
\* kGSteps optimizer steps, kGSteps being the setting when the stage starts,
\* and with kGSteps = 0 it leaves the parameters as they are; a call
\* finishes only after that stage.
C25_ExactlyKGSteps ==
  [][/\ (optLog'.by # 0 /\ lastAbort'.by # optLog'.by) =>
          /\ Len(optLog'.steps) = kGSteps
          /\ gVersion' = gVersion + kGSteps
          /\ kGSteps = 0 => (gVersion' = gVersion /\ model' = model)
     /\ lastEnd'.path = "finished" =>
          \/ optLog'.by = lastEnd'.by
          \/ \E i \in 1 .. Len(calls) :
                calls[i].id = lastEnd'.by /\ calls[i].pc > 3 /\ variant = "demo"
    ]_vars

\* An iteration that waited in slow mode has finished with two optimizer
\* steps applied.
C25_Witness ==
  /\ lastEnd.path = "finished"
  /\ optLog.by = lastEnd.by
  /\ slowMode
  /\ kGSteps = 2
  /\ Len(optLog.steps) = 2
  /\ gVersion >= 2

\* C27: at most one training chain exists: the pending animation-frame
\* callbacks and the suspended iterations, each of which ends by requesting
\* one, are never more than one together.
C27_OneTrainingChain == raf + Len(calls) <= 1

\* C28: when the weights of a file are applied, pre-trained mode is on and
\* the file is that of the selected shape.
C28_AppliedOnlyIfStillWanted ==
  lastOp.op = "pretrained" =>
     (usePretrained /\ lastOp.shape = selectedShapeName)

\* C29: when the load of a pre-trained model has completed, every parameter
\* of the model equals the weight of its index in the file.
C29_ParametersEqualFile ==
  (lastOp.op = "pretrained" /\ lastOp.status = "ok") =>
     \A i \in ParameterIndices :
        imle.gVariables[i + 1].value = lastOp.weightData[i + 1]

=============================================================================
